---- MODULE Spec2Model ----
(***************************************************************************)
(* boatctl: the configuration loader (config_loader::load), the models it  *)
(* returns (config.rs) and the metadata its caller builds from them        *)
(* (metadata.rs, bin/boat.rs).                                             *)
(*                                                                         *)
(* One behaviour is one run of the CLI on one pair of documents: Init      *)
(* draws the two documents, the actions are the statements of load in      *)
(* program order, followed by what main does with load's result.           *)
(*                                                                         *)
(* Two parts of the library that main does not reach have specifications   *)
(* of their own: AppConfig::normalize called on a configuration            *)
(* (NormalizeSpec) and a LogLoader paging through logs (LogLoaderSpec).    *)
(***************************************************************************)
EXTENDS Integers, Sequences, FiniteSets, TLC

\* A run of the CLI on a pair of documents.
VARIABLES spec_doc, config_doc, pc, parsed_spec, parsed_config, result, ran, metadata

\* An AppConfig under AppConfig::normalize(&mut self): its value now, and the
\* values it had before each call made so far.
VARIABLES app_config, before_normalize

\* A LogLoader: its fields cursor and deployment_id, the queries it has sent
\* with what came back, and what each call of load_logs has returned.
VARIABLES cursor, deployment_id, exchanges, returns

load_vars == <<spec_doc, config_doc, pc, parsed_spec, parsed_config, result, ran, metadata>>

normalize_vars == <<app_config, before_normalize>>

loader_vars == <<cursor, deployment_id, exchanges, returns>>

vars == <<load_vars, normalize_vars, loader_vars>>

(***************************************************************************)
(* Bounds of the input documents.                                          *)
(***************************************************************************)
\* Entries of a specification document (env and secrets together) when they
\* may take any form, and when all of them are bare strings.
MaxSpecEntries == 2

MaxPlainEntries == 3

\* Entries of a configuration document (env and secrets together).
MaxConfigEntries == 2

MaxPubsub == 1

Keys == {"A", "B"}

Values == {"8080", "abc"}

Patterns == {"^[0-9]+$", "("}

PubsubNames == <<"p1", "p2", "p3", "p4", "p5">>

(***************************************************************************)
(* Option and Result.                                                      *)
(***************************************************************************)
None == <<>>

Some(x) == <<x>>

Ok(v) == [ok |-> TRUE, value |-> v]

Err(e) == [ok |-> FALSE, err |-> e]

Unit == "()"

(***************************************************************************)
(* toml::Spanned<T>: a value with the byte range it was parsed from.       *)
(***************************************************************************)
Spanned(v, s, e) == [value |-> v, start |-> s, end |-> e]

\* miette::SourceSpan built from start..end: (offset, length).
toml_spanned_to_source_span(spanned) ==
  [offset |-> spanned.start, len |-> spanned.end - spanned.start]

\* miette::NamedSource::new(name, text)
NamedSource(name, text) == [name |-> name, text |-> text]

(***************************************************************************)
(* config.rs                                                               *)
(***************************************************************************)
EnvSpec(key, regex, optional) == [key |-> key, regex |-> regex, optional |-> optional]

\* A bare string read as an optional requirement.
to_env_spec_plain_optional(x) ==
  IF x.tag = "Spec"
  THEN x.spec
  ELSE EnvSpec(x.name, None, TRUE)

\* EnvSpecOrPlain::to_env_spec
to_env_spec(x) ==
  IF x.tag = "Spec"
  THEN x.spec
  ELSE EnvSpec(x.name, None, FALSE)

\* IndexMap::get_key_value: the entry stored under the key, if any.  Keys of
\* one map are unique, so the first entry found is the only one.
RECURSIVE get_key_value_from(_, _, _)
get_key_value_from(map, key, i) ==
  IF i > Len(map) THEN None
  ELSE IF map[i].key.value = key THEN Some(map[i])
  ELSE get_key_value_from(map, key, i + 1)

get_key_value(map, key) == get_key_value_from(map, key, 1)

\* Option::or_else
or_else(opt, other) == IF opt # None THEN opt ELSE other

\* The namespace of every entry becomes the entry's name.
normalize_namespace_from_key(config) ==
  [config EXCEPT !.pubsub =
     [i \in 1..Len(config.pubsub) |->
        [key |-> config.pubsub[i].key,
         value |-> [tag |-> "Metadata",
                    metadata |-> [namespace |-> config.pubsub[i].key]]]]]

\* AppConfig::normalize: every plain pubsub entry becomes the metadata whose
\* namespace is the plain string.
normalize(config) ==
  [config EXCEPT !.pubsub =
     [i \in 1..Len(config.pubsub) |->
        IF config.pubsub[i].value.tag = "Plain"
        THEN [key |-> config.pubsub[i].key,
              value |-> [tag |-> "Metadata",
                         metadata |-> [namespace |-> config.pubsub[i].value.value]]]
        ELSE config.pubsub[i]]]

\* PubsubMetadataOrPlain::unwrap_as_metadata; Err stands for the panic.
unwrap_as_metadata(x) ==
  IF x.tag = "Metadata" THEN Ok(x.metadata) ELSE Err("pubsub metadata not normalized")

(***************************************************************************)
(* cursor.rs                                                               *)
(***************************************************************************)
\* enum ServiceCursor<T> { Initial, Next(T), End }
ServiceCursor_Initial == [tag |-> "Initial"]

ServiceCursor_Next(t) == [tag |-> "Next", value |-> t]

ServiceCursor_End == [tag |-> "End"]

\* A cursor that never names a page: every request asks for the newest one.
as_request_cursor_ref_always_none(self) == None

\* ServiceCursor::as_request_cursor_ref
as_request_cursor_ref(self) ==
  IF self.tag = "Initial" THEN None
  ELSE IF self.tag = "Next" THEN Some(self.value)
  ELSE None

(***************************************************************************)
(* The regex crate, on the patterns and values of the model.               *)
(***************************************************************************)
\* Regex::new
Regex_new(regex) == IF regex = "(" THEN Err("regex parse error") ELSE Ok(regex)

\* Regex::is_match
is_match(re, value) ==
  CASE re = "^[0-9]+$" -> value \in {"8080"}
    [] OTHER -> FALSE

(***************************************************************************)
(* config_loader.rs: the four checks.                                      *)
(***************************************************************************)
\* The scan with the two spans labeled in the order the scan met them.
RECURSIVE spec_dup_scan_in_scan_order(_, _, _, _)
spec_dup_scan_in_scan_order(items, i, seen, src) ==
  IF i > Len(items) THEN Ok(Unit)
  ELSE LET spec == to_env_spec(items[i].value)
           span == toml_spanned_to_source_span(items[i])
       IN IF spec.key \in DOMAIN seen
          THEN Err([kind |-> "DuplicateSpecEnvError", src |-> src,
                    prev_def |-> seen[spec.key], redef |-> span])
          ELSE spec_dup_scan_in_scan_order(items, i + 1, seen @@ (spec.key :> span), src)

\* The duplicate scan of validate_spec_no_dup_env_or_secret, from item i on
\* with the keys seen so far.
RECURSIVE spec_dup_scan(_, _, _, _)
spec_dup_scan(items, i, seen, src) ==
  IF i > Len(items) THEN Ok(Unit)
  ELSE LET spec == to_env_spec(items[i].value)
           span == toml_spanned_to_source_span(items[i])
       IN IF spec.key \in DOMAIN seen
          THEN LET prev_span == seen[spec.key]
                   pair == IF prev_span.offset < span.offset
                           THEN <<prev_span, span>>
                           ELSE <<span, prev_span>>
               IN Err([kind |-> "DuplicateSpecEnvError", src |-> src,
                       prev_def |-> pair[1], redef |-> pair[2]])
          ELSE spec_dup_scan(items, i + 1, seen @@ (spec.key :> span), src)

\* The check with spec.secrets scanned before spec.env.
validate_spec_no_dup_secrets_first(spec_name, spec_text, spec) ==
  spec_dup_scan(spec.secrets \o spec.env, 1, <<>>, NamedSource(spec_name, spec_text))

validate_spec_no_dup_env_or_secret(spec_name, spec_text, spec) ==
  spec_dup_scan(spec.env \o spec.secrets, 1, <<>>, NamedSource(spec_name, spec_text))

RECURSIVE config_dup_scan(_, _, _, _)
config_dup_scan(items, i, seen, src) ==
  IF i > Len(items) THEN Ok(Unit)
  ELSE LET key == items[i].key
           span == toml_spanned_to_source_span(key)
       IN IF key.value \in DOMAIN seen
          THEN LET prev_span == seen[key.value]
                   pair == IF prev_span.offset < span.offset
                           THEN <<prev_span, span>>
                           ELSE <<span, prev_span>>
               IN Err([kind |-> "DuplicateConfigEnvError", src |-> src,
                       prev_def |-> pair[1], redef |-> pair[2]])
          ELSE config_dup_scan(items, i + 1, seen @@ (key.value :> span), src)

\* The check with config.env alone scanned.
validate_config_no_dup_env_only(config_name, config_text, config) ==
  config_dup_scan(config.env, 1, <<>>, NamedSource(config_name, config_text))

validate_config_no_dup_env_or_secret(config_name, config_text, config) ==
  config_dup_scan(config.env \o config.secrets, 1, <<>>,
                  NamedSource(config_name, config_text))

\* The exclusivity scan looking the key up in config.secrets.
RECURSIVE secret_as_env_scan_in_secrets(_, _, _, _)
secret_as_env_scan_in_secrets(items, i, config, src) ==
  IF i > Len(items) THEN Ok(Unit)
  ELSE LET env_spec == to_env_spec(items[i].value)
           kv == get_key_value(config.secrets, env_spec.key)
       IN IF kv # None
          THEN Err([kind |-> "SecretDefinedAsEnv", src |-> src,
                    def |-> toml_spanned_to_source_span(kv[1].key)])
          ELSE secret_as_env_scan_in_secrets(items, i + 1, config, src)

RECURSIVE secret_as_env_scan(_, _, _, _)
secret_as_env_scan(items, i, config, src) ==
  IF i > Len(items) THEN Ok(Unit)
  ELSE LET env_spec == to_env_spec(items[i].value)
           kv == get_key_value(config.env, env_spec.key)
       IN IF kv # None
          THEN Err([kind |-> "SecretDefinedAsEnv", src |-> src,
                    def |-> toml_spanned_to_source_span(kv[1].key)])
          ELSE secret_as_env_scan(items, i + 1, config, src)

\* The exclusivity check made in both directions: also no key of spec.env in
\* config.secrets.
validate_no_secret_defined_as_env_both_ways(spec_name, spec_text, spec, config_name, config_text, config) ==
  LET r == secret_as_env_scan(spec.secrets, 1, config, NamedSource(config_name, config_text))
  IN IF ~r.ok THEN r
     ELSE secret_as_env_scan_in_secrets(spec.env, 1, config,
                                        NamedSource(config_name, config_text))

validate_no_secret_defined_as_env(spec_name, spec_text, spec, config_name, config_text, config) ==
  secret_as_env_scan(spec.secrets, 1, config, NamedSource(config_name, config_text))

\* The lookup of a requirement's key: config.env first, then config.secrets.
env_lookup_env_only(config, key) == get_key_value(config.env, key)

env_lookup(config, key) ==
  or_else(get_key_value(config.env, key), get_key_value(config.secrets, key))

\* if !env_spec.optional && kv.is_none()
is_undefined_ignoring_optional(env_spec, kv) == kv = None

is_undefined(env_spec, kv) == ~env_spec.optional /\ kv = None

\* The error returned for an undefined key.
undefined_env_error_in_config(item, spec_src, config_src) ==
  [kind |-> "UndefinedEnvError", src |-> config_src,
   def |-> toml_spanned_to_source_span(item)]

undefined_env_error(item, spec_src, config_src) ==
  [kind |-> "UndefinedEnvError", src |-> spec_src,
   def |-> toml_spanned_to_source_span(item)]

\* if let Some(regex) = &env_spec.regex { ... }: compile the regex, then test
\* the value if there is one.
regex_check_when_value(regex, kv, item, spec_src, config_src) ==
  IF kv = None THEN Ok(Unit)
  ELSE LET re == Regex_new(regex)
       IN IF ~re.ok
          THEN Err([kind |-> "InvalidEnvRegexError", src |-> spec_src,
                    def |-> toml_spanned_to_source_span(item)])
          ELSE IF ~is_match(re.value, kv[1].value)
          THEN Err([kind |-> "EnvDoesNotMatchSpec", src |-> config_src,
                    def |-> toml_spanned_to_source_span(kv[1].key),
                    help |-> <<"regex: ", regex>>])
          ELSE Ok(Unit)

regex_check(regex, kv, item, spec_src, config_src) ==
  LET re == Regex_new(regex)
  IN IF ~re.ok
     THEN Err([kind |-> "InvalidEnvRegexError", src |-> spec_src,
               def |-> toml_spanned_to_source_span(item)])
     ELSE IF kv # None /\ ~is_match(re.value, kv[1].value)
     THEN Err([kind |-> "EnvDoesNotMatchSpec", src |-> config_src,
               def |-> toml_spanned_to_source_span(kv[1].key),
               help |-> <<"regex: ", regex>>])
     ELSE Ok(Unit)

\* One turn of the loop of validate_env_defined_and_valid: the error the item
\* returns, or Ok to go on with the next item.
env_item_check(item, config, spec_src, config_src) ==
  LET env_spec == to_env_spec(item.value)
      kv == env_lookup(config, env_spec.key)
  IN IF is_undefined(env_spec, kv)
     THEN Err(undefined_env_error(item, spec_src, config_src))
     ELSE IF env_spec.regex = None THEN Ok(Unit)
     ELSE regex_check(env_spec.regex[1], kv, item, spec_src, config_src)

RECURSIVE env_defined_scan(_, _, _, _, _)
env_defined_scan(items, i, config, spec_src, config_src) ==
  IF i > Len(items) THEN Ok(Unit)
  ELSE LET r == env_item_check(items[i], config, spec_src, config_src)
       IN IF ~r.ok THEN r
          ELSE env_defined_scan(items, i + 1, config, spec_src, config_src)

validate_env_defined_and_valid(spec_name, spec_text, spec, config_name, config_text, config) ==
  env_defined_scan(spec.env \o spec.secrets, 1, config,
                   NamedSource(spec_name, spec_text),
                   NamedSource(config_name, config_text))

\* parse_toml: toml::from_str on the document's text.  The document record
\* carries what the TOML parser answers for that text: the model, or an error
\* whose line and column, if it has them, SourceOffset::from_location has
\* turned into the byte offset error_offset.
parse_toml(name, doc) ==
  IF doc.toml.ok
  THEN Ok(doc.toml.value)
  ELSE Err([kind |-> "ConfigParseError", src |-> NamedSource(name, doc.text),
            bad_bit |-> IF doc.toml.error_offset = None THEN None
                        ELSE LET loc == doc.toml.error_offset[1]
                             IN Some([offset |-> loc, len |-> loc])])

(***************************************************************************)
(* metadata.rs                                                             *)
(***************************************************************************)
\* collect() of (key, value) pairs into a HashMap: a later pair replaces an
\* earlier one with the same key.
RECURSIVE collect(_, _)
collect(pairs, i) ==
  IF i = 0 THEN <<>>
  ELSE (pairs[i][1] :> pairs[i][2]) @@ collect(pairs, i - 1)

\* The pubsub field of AppMetadata::from_config: every entry is read with
\* unwrap_as_metadata, and the first panic ends the call.
RECURSIVE pubsub_metadata(_, _)
pubsub_metadata(pubsub, i) ==
  IF i > Len(pubsub) THEN Ok(<<>>)
  ELSE LET m == unwrap_as_metadata(pubsub[i].value)
       IN IF ~m.ok THEN m
          ELSE LET rest == pubsub_metadata(pubsub, i + 1)
               IN IF ~rest.ok THEN rest
                  ELSE Ok(<<<<pubsub[i].key, m.value>>>> \o rest.value)

\* AppMetadata::from_config: Ok(metadata), or Err(the panic's message).
from_config(config) ==
  LET pubsub == pubsub_metadata(config.pubsub, 1)
  IN IF ~pubsub.ok THEN pubsub
     ELSE Ok([env |-> collect([i \in 1..Len(config.env) |->
                                 <<config.env[i].key.value, config.env[i].value>>],
                              Len(config.env)),
              secrets |-> collect([i \in 1..Len(config.secrets) |->
                                 <<config.secrets[i].key.value, config.secrets[i].value>>],
                              Len(config.secrets)),
              pubsub |-> collect(pubsub.value, Len(pubsub.value))])

(***************************************************************************)
(* The documents a run may be given.                                       *)
(***************************************************************************)
SeqsUpTo(S, n) == UNION {[1..m -> S] : m \in 0..n}

EnvSpecOrPlainValues ==
  {[tag |-> "Plain", name |-> k] : k \in Keys}
  \cup {[tag |-> "Spec", spec |-> EnvSpec(k, r, o)] :
          k \in Keys, r \in {None} \cup {Some(p) : p \in Patterns}, o \in BOOLEAN}

\* An entry of an array of the specification document: entries follow one
\* another in the text, the n-th at byte 10 * n; a bare string is shorter than
\* an inline table.
SpecItem(v, n) == Spanned(v, 10 * n, 10 * n + (IF v.tag = "Plain" THEN 3 ELSE 8))

\* The model of a specification document with the arrays env and secrets, the
\* secrets array written before or after the env array.
AppSpec(env, secrets, secrets_first) ==
  [env |-> [i \in 1..Len(env) |->
              SpecItem(env[i], i + (IF secrets_first THEN Len(secrets) ELSE 0))],
   secrets |-> [i \in 1..Len(secrets) |->
              SpecItem(secrets[i], i + (IF secrets_first THEN 0 ELSE Len(env)))],
   artifact |-> "index.js"]

\* An entry of a table of the configuration document; the span is the key's.
ConfigEntry(kv, n) == [key |-> Spanned(kv[1], 10 * n, 10 * n + 1), value |-> kv[2]]

PubsubValues ==
  {[tag |-> "Plain", value |-> "ns"],
   [tag |-> "Metadata", metadata |-> [namespace |-> "ns"]]}

AppConfig(env, secrets, secrets_first, pubsub) ==
  [id |-> "app",
   env |-> [i \in 1..Len(env) |->
              ConfigEntry(env[i], i + (IF secrets_first THEN Len(secrets) ELSE 0))],
   secrets |-> [i \in 1..Len(secrets) |->
              ConfigEntry(secrets[i], i + (IF secrets_first THEN 0 ELSE Len(env)))],
   pubsub |-> [i \in 1..Len(pubsub) |-> [key |-> PubsubNames[i], value |-> pubsub[i]]]]

\* A TOML table holds a key once: the keys of one map are distinct.
DistinctKeys(m) == \A i, j \in 1..Len(m) : i # j => m[i][1] # m[j][1]

\* The specification models with at most n entries drawn from `values`.
SpecModelsOf(values, n) ==
  {AppSpec(p[1], p[2], first) :
     p \in {q \in SeqsUpTo(values, n) \X SeqsUpTo(values, n) : Len(q[1]) + Len(q[2]) <= n},
     first \in BOOLEAN}

SpecModels ==
  SpecModelsOf(EnvSpecOrPlainValues, MaxSpecEntries)
  \cup SpecModelsOf({[tag |-> "Plain", name |-> k] : k \in Keys}, MaxPlainEntries)

ConfigMaps == {m \in SeqsUpTo(Keys \X Values, MaxConfigEntries) : DistinctKeys(m)}

ConfigModels ==
  {AppConfig(p[1], p[2], first, pubsub) :
     p \in {q \in ConfigMaps \X ConfigMaps : Len(q[1]) + Len(q[2]) <= MaxConfigEntries},
     first \in BOOLEAN,
     pubsub \in SeqsUpTo(PubsubValues, MaxPubsub)}

\* What toml::from_str answers for a text: a model, or an error with or
\* without a position.
Malformed == {[ok |-> FALSE, error_offset |-> o] : o \in {None, Some(7)}}

SpecDocs ==
  {[name |-> "Boat.spec.toml", text |-> "spec text", toml |-> t] :
     t \in {Ok(m) : m \in SpecModels} \cup Malformed}

ConfigDocs ==
  {[name |-> "Boat.toml", text |-> "config text", toml |-> t] :
     t \in {Ok(m) : m \in ConfigModels} \cup Malformed}

(***************************************************************************)
(* The run: load, statement by statement, then main.                       *)
(***************************************************************************)
Init ==
  /\ spec_doc \in SpecDocs
  /\ config_doc \in ConfigDocs
  /\ pc = "parse_spec"
  /\ parsed_spec = None
  /\ parsed_config = None
  /\ result = None
  /\ ran = <<>>
  /\ metadata = None
  \* main calls neither AppConfig::normalize nor LogLoader::new (the logs
  \* command bails out with "Not implemented").
  /\ app_config = None
  /\ before_normalize = <<>>
  /\ cursor = ServiceCursor_Initial
  /\ deployment_id = None
  /\ exchanges = <<>>
  /\ returns = <<>>

\* Where load goes after a check: `?` returns the error, otherwise on.
Step(name, r, next) ==
  /\ ran' = Append(ran, name)
  /\ IF r.ok
     THEN /\ pc' = next
          /\ result' = result
     ELSE /\ pc' = "returned"
          /\ result' = Some(Err(r.err))

\* let parsed_spec: AppSpec = parse_toml(spec_name, spec)?;
ParseSpec ==
  /\ pc = "parse_spec"
  /\ LET r == parse_toml(spec_doc.name, spec_doc)
     IN /\ Step("parse_spec", r, "parse_config")
        /\ parsed_spec' = IF r.ok THEN Some(r.value) ELSE parsed_spec
  /\ UNCHANGED <<spec_doc, config_doc, parsed_config, metadata,
               normalize_vars, loader_vars>>

\* The configuration parsed under the specification's name.
ParseConfig_under_spec_name ==
  /\ pc = "parse_config"
  /\ LET r == parse_toml(spec_doc.name, config_doc)
     IN /\ Step("parse_config", r, "validate_spec_no_dup_env_or_secret")
        /\ parsed_config' = IF r.ok THEN Some(r.value) ELSE parsed_config
  /\ UNCHANGED <<spec_doc, config_doc, parsed_spec, metadata,
               normalize_vars, loader_vars>>

\* let parsed_config: AppConfig = parse_toml(config_name, config)?;
ParseConfig ==
  /\ pc = "parse_config"
  /\ LET r == parse_toml(config_doc.name, config_doc)
     IN /\ Step("parse_config", r, "validate_spec_no_dup_env_or_secret")
        /\ parsed_config' = IF r.ok THEN Some(r.value) ELSE parsed_config
  /\ UNCHANGED <<spec_doc, config_doc, parsed_spec, metadata,
               normalize_vars, loader_vars>>

\* The first check without the `?`: its error is kept and load goes on.
ValidateSpecNoDup_without_return ==
  /\ pc = "validate_spec_no_dup_env_or_secret"
  /\ LET r == validate_spec_no_dup_env_or_secret(spec_doc.name, spec_doc.text,
                                                parsed_spec[1])
     IN /\ ran' = Append(ran, "validate_spec_no_dup_env_or_secret")
        /\ pc' = "validate_config_no_dup_env_or_secret"
        /\ result' = IF r.ok THEN result ELSE Some(Err(r.err))
  /\ UNCHANGED <<spec_doc, config_doc, parsed_spec, parsed_config, metadata,
               normalize_vars, loader_vars>>

\* validate_spec_no_dup_env_or_secret((spec_name, spec, &parsed_spec))?;
ValidateSpecNoDup ==
  /\ pc = "validate_spec_no_dup_env_or_secret"
  /\ Step("validate_spec_no_dup_env_or_secret",
          validate_spec_no_dup_env_or_secret(spec_doc.name, spec_doc.text, parsed_spec[1]),
          "validate_config_no_dup_env_or_secret")
  /\ UNCHANGED <<spec_doc, config_doc, parsed_spec, parsed_config, metadata,
               normalize_vars, loader_vars>>

ValidateConfigNoDup ==
  /\ pc = "validate_config_no_dup_env_or_secret"
  /\ Step("validate_config_no_dup_env_or_secret",
          validate_config_no_dup_env_or_secret(config_doc.name, config_doc.text,
                                               parsed_config[1]),
          "validate_env_defined_and_valid")
  /\ UNCHANGED <<spec_doc, config_doc, parsed_spec, parsed_config, metadata,
               normalize_vars, loader_vars>>

ValidateEnvDefinedAndValid ==
  /\ pc = "validate_env_defined_and_valid"
  /\ Step("validate_env_defined_and_valid",
          validate_env_defined_and_valid(spec_doc.name, spec_doc.text, parsed_spec[1],
                                         config_doc.name, config_doc.text,
                                         parsed_config[1]),
          "validate_no_secret_defined_as_env")
  /\ UNCHANGED <<spec_doc, config_doc, parsed_spec, parsed_config, metadata,
               normalize_vars, loader_vars>>

ValidateNoSecretDefinedAsEnv ==
  /\ pc = "validate_no_secret_defined_as_env"
  /\ Step("validate_no_secret_defined_as_env",
          validate_no_secret_defined_as_env(spec_doc.name, spec_doc.text, parsed_spec[1],
                                            config_doc.name, config_doc.text,
                                            parsed_config[1]),
          "return_ok")
  /\ UNCHANGED <<spec_doc, config_doc, parsed_spec, parsed_config, metadata,
               normalize_vars, loader_vars>>

\* Ok((parsed_spec, parsed_config))
ReturnOk ==
  /\ pc = "return_ok"
  /\ result' = Some(Ok(<<parsed_spec[1], parsed_config[1]>>))
  /\ pc' = "returned"
  /\ UNCHANGED <<spec_doc, config_doc, parsed_spec, parsed_config, ran, metadata,
               normalize_vars, loader_vars>>

\* main, on Err(e): eprintln and exit(1).
MainExit ==
  /\ pc = "returned"
  /\ ~result[1].ok
  /\ pc' = "exit"
  /\ UNCHANGED <<spec_doc, config_doc, parsed_spec, parsed_config, result, ran, metadata,
               normalize_vars, loader_vars>>

\* main, on Ok, for the commands deploy and pack:
\* let metadata = AppMetadata::from_config(&config);
MainFromConfig ==
  /\ pc = "returned"
  /\ result[1].ok
  /\ LET md == from_config(result[1].value[2])
     IN /\ metadata' = Some(md)
        /\ pc' = IF md.ok THEN "metadata" ELSE "panic"
  /\ UNCHANGED <<spec_doc, config_doc, parsed_spec, parsed_config, result, ran,
               normalize_vars, loader_vars>>

Next ==
  \/ ParseSpec
  \/ ParseConfig
  \/ ValidateSpecNoDup
  \/ ValidateConfigNoDup
  \/ ValidateEnvDefinedAndValid
  \/ ValidateNoSecretDefinedAsEnv
  \/ ReturnOk
  \/ MainExit
  \/ MainFromConfig

Spec == Init /\ [][Next]_vars

(***************************************************************************)
(* The vocabulary of the properties: what the two documents say, read off  *)
(* the documents themselves.                                               *)
(***************************************************************************)
BothParse == spec_doc.toml.ok /\ config_doc.toml.ok

TheSpec == spec_doc.toml.value

TheConfig == config_doc.toml.value

\* The requirements in declaration order, env before secrets.
Reqs == TheSpec.env \o TheSpec.secrets

ConfigEntries == TheConfig.env \o TheConfig.secrets

ReqKey(item) == IF item.value.tag = "Plain" THEN item.value.name ELSE item.value.spec.key

ReqOptional(item) == item.value.tag = "Spec" /\ item.value.spec.optional

ReqRegex(item) == IF item.value.tag = "Plain" THEN None ELSE item.value.spec.regex

SpanOf(x) == [offset |-> x.start, len |-> x.end - x.start]

KeysIn(map) == {map[i].key.value : i \in 1..Len(map)}

\* The entry a requirement's value comes from: config.env's, else config.secrets'.
EntryFor(key) ==
  IF key \in KeysIn(TheConfig.env)
  THEN CHOOSE e \in {TheConfig.env[i] : i \in 1..Len(TheConfig.env)} : e.key.value = key
  ELSE CHOOSE e \in {TheConfig.secrets[i] : i \in 1..Len(TheConfig.secrets)} :
         e.key.value = key

HasValue(key) == key \in KeysIn(TheConfig.env) \cup KeysIn(TheConfig.secrets)

Missing(item) == ~ReqOptional(item) /\ ~HasValue(ReqKey(item))

BadRegex(item) == ReqRegex(item) # None /\ ~Regex_new(ReqRegex(item)[1]).ok

Mismatch(item) ==
  /\ ReqRegex(item) # None
  /\ Regex_new(ReqRegex(item)[1]).ok
  /\ HasValue(ReqKey(item))
  /\ ~is_match(ReqRegex(item)[1], EntryFor(ReqKey(item)).value)

SpecSrc == [name |-> spec_doc.name, text |-> spec_doc.text]

ConfigSrc == [name |-> config_doc.name, text |-> config_doc.text]

\* The four checks, each on its own.
SpecHasDup == \E i, j \in 1..Len(Reqs) : i < j /\ ReqKey(Reqs[i]) = ReqKey(Reqs[j])

ConfigHasDup == KeysIn(TheConfig.env) \cap KeysIn(TheConfig.secrets) # {}

SomeReqInvalid == \E i \in 1..Len(Reqs) : Missing(Reqs[i]) \/ BadRegex(Reqs[i]) \/ Mismatch(Reqs[i])

SecretInEnv ==
  \E i \in 1..Len(TheSpec.secrets) : ReqKey(TheSpec.secrets[i]) \in KeysIn(TheConfig.env)

CheckOrder ==
  <<"validate_spec_no_dup_env_or_secret", "validate_config_no_dup_env_or_secret",
    "validate_env_defined_and_valid", "validate_no_secret_defined_as_env">>

\* The checks that ran, the two parses left out.
ChecksRan == SubSeq(ran, 3, Len(ran))

\* load has returned, both documents having parsed.
Returned == BothParse /\ result # None

Failed == result # None /\ ~result[1].ok

FailedWith(kind) == Failed /\ result[1].err.kind = kind

\* C1: load runs the four checks in the order spec-duplicate, config-duplicate,
\* required-and-valid, secret/env-exclusivity and stops at the first violation:
\* the checks that ran are always a prefix of that order; once load has
\* returned, the checks that ran end with the earliest check the documents
\* violate (all four when they violate none), and the one diagnostic returned
\* is of that check's kind, whatever later checks the documents also violate.
C1_FixedOrderFirstViolation ==
  /\ Len(ran) > 2 => /\ Len(ChecksRan) <= 4
                     /\ ChecksRan = SubSeq(CheckOrder, 1, Len(ChecksRan))
  /\ Returned =>
       IF SpecHasDup
       THEN Len(ChecksRan) = 1 /\ FailedWith("DuplicateSpecEnvError")
       ELSE IF ConfigHasDup
       THEN Len(ChecksRan) = 2 /\ FailedWith("DuplicateConfigEnvError")
       ELSE IF SomeReqInvalid
       THEN /\ Len(ChecksRan) = 3
            /\ Failed
            /\ result[1].err.kind \in
                 {"UndefinedEnvError", "InvalidEnvRegexError", "EnvDoesNotMatchSpec"}
       ELSE IF SecretInEnv
       THEN Len(ChecksRan) = 4 /\ FailedWith("SecretDefinedAsEnv")
       ELSE Len(ChecksRan) = 4 /\ result[1].ok

\* C1's case: load has returned on documents that violate all four checks.
C1_Witness ==
  /\ Returned
  /\ SpecHasDup /\ ConfigHasDup /\ SomeReqInvalid /\ SecretInEnv

\* C2: for documents that parse, load returns Ok, with the two models as
\* parsed, exactly when no key occurs twice in spec.env followed by
\* spec.secrets, no key is in both config.env and config.secrets, every
\* non-optional requirement's key is in config.env or config.secrets, every
\* declared regex compiles and every value found for a requirement with a regex
\* matches it, and no spec.secrets key is in config.env.
C2_OkExactlyWhenValid ==
  Returned =>
    /\ result[1].ok <=>
         /\ \A i, j \in 1..Len(Reqs) : i # j => ReqKey(Reqs[i]) # ReqKey(Reqs[j])
         /\ \A k \in KeysIn(TheConfig.env) : k \notin KeysIn(TheConfig.secrets)
         /\ \A i \in 1..Len(Reqs) : ~ReqOptional(Reqs[i]) => HasValue(ReqKey(Reqs[i]))
         /\ \A i \in 1..Len(Reqs) :
              ReqRegex(Reqs[i]) # None =>
                /\ Regex_new(ReqRegex(Reqs[i])[1]).ok
                /\ \A e \in {ConfigEntries[n] : n \in 1..Len(ConfigEntries)} :
                     e.key.value = ReqKey(Reqs[i]) => is_match(ReqRegex(Reqs[i])[1], e.value)
         /\ \A i \in 1..Len(TheSpec.secrets) :
              ReqKey(TheSpec.secrets[i]) \notin KeysIn(TheConfig.env)
    /\ result[1].ok => result[1].value = <<TheSpec, TheConfig>>

\* C2's case: load has returned Ok although an optional requirement has no
\* value in either namespace.
C2_Witness ==
  /\ Returned
  /\ result[1].ok
  /\ \E i \in 1..Len(Reqs) : ReqOptional(Reqs[i]) /\ ~HasValue(ReqKey(Reqs[i]))

\* C3: a duplicate-key diagnostic, of the spec or of the config, reports the
\* spans of two entries with the same key, and the one labeled "previous
\* definition" starts before the one labeled "redefined here", whichever list
\* each entry is in and whichever the scan met first.
C3_DuplicateTieBreak ==
  /\ (BothParse /\ FailedWith("DuplicateSpecEnvError")) =>
       \E i, j \in 1..Len(Reqs) :
         /\ i # j
         /\ ReqKey(Reqs[i]) = ReqKey(Reqs[j])
         /\ result[1].err.prev_def = SpanOf(Reqs[i])
         /\ result[1].err.redef = SpanOf(Reqs[j])
         /\ Reqs[i].start < Reqs[j].start
  /\ (BothParse /\ FailedWith("DuplicateConfigEnvError")) =>
       \E i, j \in 1..Len(ConfigEntries) :
         /\ i # j
         /\ ConfigEntries[i].key.value = ConfigEntries[j].key.value
         /\ result[1].err.prev_def = SpanOf(ConfigEntries[i].key)
         /\ result[1].err.redef = SpanOf(ConfigEntries[j].key)
         /\ ConfigEntries[i].key.start < ConfigEntries[j].key.start

\* C3's case: a duplicate-in-spec diagnostic for two entries of which the scan
\* met the later one of the text first (secrets written before env).
C3_Witness ==
  /\ BothParse
  /\ FailedWith("DuplicateSpecEnvError")
  /\ \E i, j \in 1..Len(Reqs) :
       /\ i < j
       /\ Reqs[j].start < Reqs[i].start
       /\ result[1].err.prev_def = SpanOf(Reqs[j])
       /\ result[1].err.redef = SpanOf(Reqs[i])

\* The first entry of the scan whose key the scan has met before.
FirstReoccurrence ==
  CHOOSE j \in 1..Len(Reqs) :
    /\ \E i \in 1..(j - 1) : ReqKey(Reqs[i]) = ReqKey(Reqs[j])
    /\ \A m \in 1..(j - 1) : \A i \in 1..(m - 1) : ReqKey(Reqs[i]) # ReqKey(Reqs[m])

FirstOccurrence(key) ==
  CHOOSE i \in 1..Len(Reqs) :
    /\ ReqKey(Reqs[i]) = key
    /\ \A m \in 1..(i - 1) : ReqKey(Reqs[m]) # key

\* The spec duplicate-key check has run.
SpecDupCheckRan == BothParse /\ Len(ran) >= 3

\* C4: the spec duplicate-key check fails, with the duplicate-in-spec
\* diagnostic, exactly when some key occurs twice in spec.env followed by
\* spec.secrets; the two spans reported are those of the first entry of that
\* sequence that repeats a key and of the first entry with that key.
C4_SpecDuplicateCheck ==
  SpecDupCheckRan =>
    /\ FailedWith("DuplicateSpecEnvError") <=> SpecHasDup
    /\ SpecHasDup =>
         /\ Len(ran) = 3
         /\ result[1].err.src = SpecSrc
         /\ {result[1].err.prev_def, result[1].err.redef}
              = {SpanOf(Reqs[FirstOccurrence(ReqKey(Reqs[FirstReoccurrence]))]),
                 SpanOf(Reqs[FirstReoccurrence])}
    /\ ~SpecHasDup => (result = None \/ Len(ran) > 3)

\* C4's case: the check has failed on a document with three entries of one
\* key, one of them in the other list.
C4_Witness ==
  /\ SpecDupCheckRan
  /\ FailedWith("DuplicateSpecEnvError")
  /\ Len(TheSpec.env) = 2 /\ Len(TheSpec.secrets) = 1
  /\ \A i \in 1..Len(Reqs) : ReqKey(Reqs[i]) = "A"
  /\ TheSpec.secrets[1].start < TheSpec.env[1].start

\* C5: when the spec has no duplicate key, load fails with the
\* duplicate-in-config diagnostic exactly when some key is in both config.env
\* and config.secrets, and the diagnostic carries the configuration document's
\* name and text.
C5_ConfigDuplicateCheck ==
  (Returned /\ ~SpecHasDup) =>
    /\ FailedWith("DuplicateConfigEnvError") <=> ConfigHasDup
    /\ ConfigHasDup => result[1].err.src = ConfigSrc

\* C5's case: load has failed with the duplicate-in-config diagnostic.
C5_Witness ==
  /\ Returned /\ ~SpecHasDup
  /\ ConfigHasDup
  /\ FailedWith("DuplicateConfigEnvError")

Invalid(item) == Missing(item) \/ BadRegex(item) \/ Mismatch(item)

\* Nothing ends the pass before the required-and-valid check gets to
\* requirement i: no duplicate key, and no earlier requirement fails the check.
ReachedByCheck(i) ==
  /\ ~SpecHasDup
  /\ ~ConfigHasDup
  /\ \A m \in 1..(i - 1) : ~Invalid(Reqs[m])

UndefinedAt(item) ==
  [kind |-> "UndefinedEnvError", src |-> SpecSrc, def |-> SpanOf(item)]

InvalidRegexAt(item) ==
  [kind |-> "InvalidEnvRegexError", src |-> SpecSrc, def |-> SpanOf(item)]

DoesNotMatchAt(item) ==
  [kind |-> "EnvDoesNotMatchSpec", src |-> ConfigSrc,
   def |-> SpanOf(EntryFor(ReqKey(item)).key),
   help |-> <<"regex: ", ReqRegex(item)[1]>>]

\* C6 as claimed: every non-optional requirement whose key is in neither
\* namespace makes load fail with the undefined-environment-variable
\* diagnostic, pointing at that requirement's span in the specification
\* document.
C6_AsClaimed ==
  Returned =>
    \A i \in 1..Len(Reqs) :
      Missing(Reqs[i]) => (Failed /\ result[1].err = UndefinedAt(Reqs[i]))

\* C6, amended: a non-optional requirement whose key is in neither namespace
\* always makes load fail; the diagnostic is the undefined-environment-variable
\* one, pointing at that requirement's span in the specification document, when
\* no duplicate-key check fails and no earlier requirement fails the
\* required-and-valid check; and an undefined-environment-variable diagnostic
\* always carries the specification document and the span of such a
\* requirement, never the configuration document.
C6_UndefinedRequirement ==
  Returned =>
    /\ \A i \in 1..Len(Reqs) :
         Missing(Reqs[i]) =>
           /\ Failed
           /\ ReachedByCheck(i) => result[1].err = UndefinedAt(Reqs[i])
    /\ FailedWith("UndefinedEnvError") =>
         /\ result[1].err.src = SpecSrc
         /\ result[1].err.src # ConfigSrc
         /\ \E i \in 1..Len(Reqs) : Missing(Reqs[i]) /\ result[1].err.def = SpanOf(Reqs[i])

\* C6's case: load has failed on a missing required key that is not the first
\* requirement of the specification.
C6_Witness ==
  /\ Returned
  /\ \E i \in 2..Len(Reqs) :
       /\ Missing(Reqs[i])
       /\ ReachedByCheck(i)
       /\ result[1] = Err(UndefinedAt(Reqs[i]))

\* C7 as claimed, in the case most favourable to it, where nothing ends the
\* pass before the check gets to the requirement: an unparsable regex makes load
\* fail with the invalid-regex diagnostic at the requirement's span, whether or
\* not the requirement is optional or has a value.
C7_AsClaimed ==
  Returned =>
    \A i \in 1..Len(Reqs) :
      (BadRegex(Reqs[i]) /\ ReachedByCheck(i)) =>
        (Failed /\ result[1].err = InvalidRegexAt(Reqs[i]))

\* C7, amended: an unparsable regex on a requirement always makes load fail,
\* and never with a does-not-match diagnostic for that requirement (no value is
\* compared against it).  When no duplicate-key check fails and no earlier
\* requirement fails the required-and-valid check, the diagnostic is the
\* invalid-regex one at that requirement's span in the specification document,
\* whether or not a value exists if the requirement is optional, and if it is
\* not optional provided a value exists; a non-optional requirement without a
\* value gets the undefined-environment-variable diagnostic instead.
C7_InvalidRegex ==
  Returned =>
    \A i \in 1..Len(Reqs) :
      BadRegex(Reqs[i]) =>
        /\ Failed
        /\ ~(/\ result[1].err.kind = "EnvDoesNotMatchSpec"
             /\ result[1].err.help = <<"regex: ", ReqRegex(Reqs[i])[1]>>)
        /\ ReachedByCheck(i) =>
             result[1].err = IF Missing(Reqs[i])
                             THEN UndefinedAt(Reqs[i])
                             ELSE InvalidRegexAt(Reqs[i])

\* C7's case: the invalid-regex diagnostic for an optional requirement without
\* a value.
C7_Witness ==
  /\ Returned
  /\ FailedWith("InvalidEnvRegexError")
  /\ \E i \in 1..Len(Reqs) :
       /\ BadRegex(Reqs[i])
       /\ result[1].err = InvalidRegexAt(Reqs[i])
       /\ ReqOptional(Reqs[i])
       /\ ~HasValue(ReqKey(Reqs[i]))

\* C8 as claimed: a requirement whose regex compiles and whose key has a value
\* that does not match makes load fail with the does-not-match-spec diagnostic
\* at the configuration entry's key span, with the regex in the hint.
C8_AsClaimed ==
  Returned =>
    \A i \in 1..Len(Reqs) :
      Mismatch(Reqs[i]) => (Failed /\ result[1].err = DoesNotMatchAt(Reqs[i]))

\* C8, amended: for a requirement whose regex compiles and whose key has a
\* value: if the value does not match, load always fails, and when no
\* duplicate-key check fails and no earlier requirement fails the
\* required-and-valid check the diagnostic is the does-not-match-spec one,
\* carrying the configuration document, the span of the configuration entry's
\* key and the hint "regex: " followed by the pattern; if the value matches, no
\* diagnostic of the required-and-valid check is about that requirement.
C8_PatternMismatch ==
  Returned =>
    \A i \in 1..Len(Reqs) :
      (/\ ReqRegex(Reqs[i]) # None
       /\ Regex_new(ReqRegex(Reqs[i])[1]).ok
       /\ HasValue(ReqKey(Reqs[i]))) =>
        IF ~is_match(ReqRegex(Reqs[i])[1], EntryFor(ReqKey(Reqs[i])).value)
        THEN /\ Failed
             /\ ReachedByCheck(i) => result[1].err = DoesNotMatchAt(Reqs[i])
        ELSE Failed =>
               /\ result[1].err # UndefinedAt(Reqs[i])
               /\ result[1].err # InvalidRegexAt(Reqs[i])
               /\ result[1].err # DoesNotMatchAt(Reqs[i])

\* C8's case: the does-not-match-spec diagnostic for a value found in
\* config.secrets.
C8_Witness ==
  /\ Returned
  /\ \E i \in 1..Len(Reqs) :
       /\ Mismatch(Reqs[i])
       /\ ReqKey(Reqs[i]) \notin KeysIn(TheConfig.env)
       /\ result[1] = Err(DoesNotMatchAt(Reqs[i]))

SecretAsEnvAt(item) ==
  [kind |-> "SecretDefinedAsEnv", src |-> ConfigSrc,
   def |-> SpanOf(EntryFor(ReqKey(item)).key)]

\* C9 as claimed: a secrets requirement whose key is in config.env makes load
\* fail with the secret-defined-as-env diagnostic at that key's span in the
\* configuration document.
C9_AsClaimed ==
  Returned =>
    \A i \in 1..Len(TheSpec.secrets) :
      ReqKey(TheSpec.secrets[i]) \in KeysIn(TheConfig.env) =>
        (Failed /\ result[1].err = SecretAsEnvAt(TheSpec.secrets[i]))

\* C9, amended: a secrets requirement whose key is in config.env always makes
\* load fail, and never with an undefined-environment-variable diagnostic for
\* that requirement (the key found in config.env satisfies coverage); the
\* diagnostic is the secret-defined-as-env one, at that key's span in the
\* configuration document, when the three earlier checks pass and no earlier
\* secrets requirement has its key in config.env - the key then being absent
\* from config.secrets.
C9_SecretDefinedAsEnv ==
  Returned =>
    /\ \A i \in 1..Len(TheSpec.secrets) :
         ReqKey(TheSpec.secrets[i]) \in KeysIn(TheConfig.env) =>
           /\ Failed
           /\ result[1].err # UndefinedAt(TheSpec.secrets[i])
           /\ (/\ ~SpecHasDup /\ ~ConfigHasDup /\ ~SomeReqInvalid
               /\ \A m \in 1..(i - 1) :
                    ReqKey(TheSpec.secrets[m]) \notin KeysIn(TheConfig.env)) =>
                /\ result[1].err = SecretAsEnvAt(TheSpec.secrets[i])
                /\ ReqKey(TheSpec.secrets[i]) \notin KeysIn(TheConfig.secrets)
    /\ FailedWith("SecretDefinedAsEnv") => SecretInEnv

\* C9's case: the secret-defined-as-env diagnostic for a required secret whose
\* key is in config.env only.
C9_Witness ==
  /\ Returned
  /\ \E i \in 1..Len(TheSpec.secrets) :
       /\ ~ReqOptional(TheSpec.secrets[i])
       /\ ReqKey(TheSpec.secrets[i]) \in KeysIn(TheConfig.env)
       /\ ReqKey(TheSpec.secrets[i]) \notin KeysIn(TheConfig.secrets)
       /\ result[1] = Err(SecretAsEnvAt(TheSpec.secrets[i]))

\* C10: after a successful load no pubsub entry of the returned configuration
\* is in its plain form, and building the metadata from it never reaches the
\* panic 'pubsub metadata not normalized'.
C10_LoadedConfigIsNormalized ==
  /\ (Returned /\ result[1].ok) =>
       \A i \in 1..Len(result[1].value[2].pubsub) :
         result[1].value[2].pubsub[i].value.tag = "Metadata"
  /\ pc # "panic"

(***************************************************************************)
(* AppConfig::normalize called on a configuration, any number of times.    *)
(***************************************************************************)
MaxNormalizePubsub == 3

MaxNormalizeCalls == 2

Namespaces == {"ns", "events"}

\* A value of the pubsub table: a bare string, or a table with a namespace.
NormalizePubsubValues ==
  {[tag |-> "Plain", value |-> n] : n \in Namespaces}
  \cup {[tag |-> "Metadata", metadata |-> [namespace |-> n]] : n \in Namespaces}

NormalizeConfigs ==
  {AppConfig(env, <<>>, FALSE, pubsub) :
     env \in {<<>>, <<<<"A", "8080">>>>},
     pubsub \in SeqsUpTo(NormalizePubsubValues, MaxNormalizePubsub)}

\* No run of load.
NoLoad ==
  /\ spec_doc = None
  /\ config_doc = None
  /\ pc = "not called"
  /\ parsed_spec = None
  /\ parsed_config = None
  /\ result = None
  /\ ran = <<>>
  /\ metadata = None

\* No LogLoader in use.
NoLogLoader ==
  /\ cursor = ServiceCursor_Initial
  /\ deployment_id = None
  /\ exchanges = <<>>
  /\ returns = <<>>

NormalizeInit ==
  /\ app_config \in NormalizeConfigs
  /\ before_normalize = <<>>
  /\ NoLoad
  /\ NoLogLoader

\* config.normalize()
Normalize ==
  /\ Len(before_normalize) < MaxNormalizeCalls
  /\ app_config' = normalize(app_config)
  /\ before_normalize' = Append(before_normalize, app_config)
  /\ UNCHANGED <<load_vars, loader_vars>>

NormalizeNext == Normalize

NormalizeSpec == NormalizeInit /\ [][NormalizeNext]_vars

\* The configuration as the n-th call of normalize left it.
AfterNormalize(n) ==
  IF n < Len(before_normalize) THEN before_normalize[n + 1] ELSE app_config

\* C11: every call of normalize returns; the first one leaves every pubsub
\* entry in structured form, under the same name and at the same place, with
\* the namespace equal to the former bare string when the entry was a bare
\* string and the entry untouched when it was structured already, and changes
\* nothing else of the configuration; a call on an already normalized
\* configuration changes nothing at all (normalize(normalize(c)) =
\* normalize(c)).
C11_NormalizeIdempotent ==
  \A n \in 1..Len(before_normalize) :
    LET c == before_normalize[n]
        d == AfterNormalize(n)
    IN /\ [d EXCEPT !.pubsub = c.pubsub] = c
       /\ Len(d.pubsub) = Len(c.pubsub)
       /\ \A i \in 1..Len(c.pubsub) :
            /\ d.pubsub[i].key = c.pubsub[i].key
            /\ d.pubsub[i].value.tag = "Metadata"
            /\ c.pubsub[i].value.tag = "Plain" =>
                 d.pubsub[i].value =
                   [tag |-> "Metadata",
                    metadata |-> [namespace |-> c.pubsub[i].value.value]]
            /\ c.pubsub[i].value.tag = "Metadata" => d.pubsub[i] = c.pubsub[i]
       /\ n >= 2 => d = c

\* C11's case: normalize called twice on a configuration that had a bare
\* string entry and a structured entry with different namespaces.
C11_Witness ==
  /\ Len(before_normalize) = 2
  /\ \E i, j \in 1..Len(before_normalize[1].pubsub) :
       /\ before_normalize[1].pubsub[i].value.tag = "Plain"
       /\ before_normalize[1].pubsub[j].value.tag = "Metadata"
       /\ before_normalize[1].pubsub[i].value.value
            # before_normalize[1].pubsub[j].value.metadata.namespace
       /\ app_config = before_normalize[2]
       /\ app_config # before_normalize[1]

(***************************************************************************)
(* load as a function of the two documents.                                *)
(***************************************************************************)
\* load: the two parses, then the four checks in order; the `?` after each
\* returns its error, and the end returns the two models.
load(spec, config) ==
  LET the_spec == parse_toml(spec.name, spec)
      the_config == parse_toml(config.name, config)
  IN IF ~the_spec.ok THEN the_spec
     ELSE IF ~the_config.ok THEN the_config
     ELSE LET spec_no_dup ==
                validate_spec_no_dup_env_or_secret(spec.name, spec.text, the_spec.value)
              config_no_dup ==
                validate_config_no_dup_env_or_secret(config.name, config.text,
                                                     the_config.value)
              env_defined ==
                validate_env_defined_and_valid(spec.name, spec.text, the_spec.value,
                                               config.name, config.text, the_config.value)
              no_secret_as_env ==
                validate_no_secret_defined_as_env(spec.name, spec.text, the_spec.value,
                                                  config.name, config.text,
                                                  the_config.value)
          IN IF ~spec_no_dup.ok THEN spec_no_dup
             ELSE IF ~config_no_dup.ok THEN config_no_dup
             ELSE IF ~env_defined.ok THEN env_defined
             ELSE IF ~no_secret_as_env.ok THEN no_secret_as_env
             ELSE Ok(<<the_spec.value, the_config.value>>)

\* The two ways of writing the requirement of a key with no pattern that is
\* not optional: the bare string and the table.
HasTwoForms(v) == v.tag = "Plain" \/ (v.spec.regex = None /\ ~v.spec.optional)

OtherForm(v) ==
  IF v.tag = "Plain"
  THEN [tag |-> "Spec", spec |-> EnvSpec(v.name, None, FALSE)]
  ELSE [tag |-> "Plain", name |-> v.spec.key]

\* The specification document with the i-th entry of one of its arrays
\* written in the other form, at the same place and with the same span.
WithOtherForm(doc, array, i) ==
  [doc EXCEPT !.toml.value[array][i].value = OtherForm(@)]

\* What a caller learns from load's result apart from the models: that it
\* succeeded, or the diagnostic with its kind, sources, spans and names.
Verdict(r) == IF r.ok THEN [ok |-> TRUE] ELSE r

\* C12: when load has returned on a specification that parses, its result is
\* the one the function load gives for the two documents, and writing any one
\* entry of spec.env or spec.secrets that has two forms in its other form
\* (bare "FOO" for {key: "FOO", no regex, not optional} or the reverse), at the
\* same position and with the same span, gives the same verdict: success both
\* times, or the same diagnostic kind with the same spans.
C12_PlainEqualsStructuredDefault ==
  (BothParse /\ pc = "returned") =>
    /\ result[1] = load(spec_doc, config_doc)
    /\ \A array \in {"env", "secrets"} :
         \A i \in 1..Len(TheSpec[array]) :
           HasTwoForms(TheSpec[array][i].value) =>
             Verdict(load(WithOtherForm(spec_doc, array, i), config_doc))
               = Verdict(result[1])

\* C12's case: load has failed with the undefined-requirement diagnostic at a
\* bare-string entry, and fails with the same diagnostic when the entry is
\* written as a table; the specification also has an entry written as a table
\* that a bare string could replace.
C12_Witness ==
  /\ BothParse
  /\ pc = "returned"
  /\ \E i \in 1..Len(TheSpec.env) :
       /\ TheSpec.env[i].value.tag = "Plain"
       /\ result[1] = Err(UndefinedAt(TheSpec.env[i]))
       /\ load(WithOtherForm(spec_doc, "env", i), config_doc) = result[1]
  /\ \E j \in 1..Len(TheSpec.secrets) :
       /\ TheSpec.secrets[j].value.tag = "Spec"
       /\ HasTwoForms(TheSpec.secrets[j].value)

(***************************************************************************)
(* Requirements and the two namespaces of the configuration.               *)
(***************************************************************************)
OnlyInSecrets(key) ==
  key \in KeysIn(TheConfig.secrets) /\ key \notin KeysIn(TheConfig.env)

\* Nothing but requirement i can make load fail.
NothingElseWrong(i) ==
  /\ ~SpecHasDup
  /\ ~ConfigHasDup
  /\ \A m \in 1..Len(Reqs) : m # i => ~Invalid(Reqs[m])
  /\ ~SecretInEnv

\* C13: a requirement of spec.env whose key is in config.secrets only passes
\* the required-and-valid check as defined (load never reports it undefined),
\* its pattern is tested against the value config.secrets gives (a mismatch,
\* once the check gets to it, is the does-not-match diagnostic at the key in
\* config.secrets; a match is no diagnostic at that key), it is never the
\* subject of the secret-defined-as-env diagnostic, and when nothing else is
\* wrong and its pattern compiles and matches load succeeds; a requirement of
\* spec.secrets whose key is in config.env makes load fail.
C13_CoverageCrossNamespace ==
  Returned =>
    /\ \A i \in 1..Len(TheSpec.env) :
         LET item == TheSpec.env[i]
             at_key == SpanOf(EntryFor(ReqKey(item)).key)
         IN OnlyInSecrets(ReqKey(item)) =>
              /\ Failed => result[1].err # UndefinedAt(item)
              /\ FailedWith("SecretDefinedAsEnv") => result[1].err.def # at_key
              /\ (ReachedByCheck(i) /\ ~BadRegex(item)) =>
                   IF Mismatch(item)
                   THEN result[1] = Err(DoesNotMatchAt(item))
                   ELSE FailedWith("EnvDoesNotMatchSpec") => result[1].err.def # at_key
              /\ (NothingElseWrong(i) /\ ~BadRegex(item) /\ ~Mismatch(item)) =>
                   result[1].ok
    /\ \A j \in 1..Len(TheSpec.secrets) :
         ReqKey(TheSpec.secrets[j]) \in KeysIn(TheConfig.env) => Failed

\* C13's case: a required spec.env entry with a pattern, whose key is in
\* config.secrets only, has passed the required-and-valid check, and load has
\* failed at a spec.secrets entry whose key is in config.env.
C13_Witness ==
  /\ Returned
  /\ \E i \in 1..Len(TheSpec.env) :
       /\ OnlyInSecrets(ReqKey(TheSpec.env[i]))
       /\ ~ReqOptional(TheSpec.env[i])
       /\ ReqRegex(TheSpec.env[i]) # None
  /\ ChecksRan = CheckOrder
  /\ \E j \in 1..Len(TheSpec.secrets) :
       result[1] = Err(SecretAsEnvAt(TheSpec.secrets[j]))

(***************************************************************************)
(* Documents that do not parse.                                            *)
(***************************************************************************)
\* The first document, in load's order, that does not parse.
FailingDoc == IF ~spec_doc.toml.ok THEN spec_doc ELSE config_doc

ParseSteps == {"parse_spec", "parse_config"}

\* C14: the specification is parsed first, then the configuration, then come
\* the checks.  When a document does not parse, load returns right after
\* that parse with a parse error, not with models, whose source is the name
\* and the whole text of that document (the specification's when neither
\* parses, the configuration then not being parsed at all), and none of the
\* four checks has run.
C14_ParseAllOrNothing ==
  /\ \A k \in 1..Len(ran) :
       /\ k = 1 => ran[k] = "parse_spec"
       /\ k = 2 => (ran[k] = "parse_config" /\ spec_doc.toml.ok)
       /\ k > 2 => (ran[k] \notin ParseSteps /\ BothParse)
  /\ ~BothParse =>
       /\ \A k \in 1..Len(ran) : ran[k] \in ParseSteps
       /\ Len(ran) <= (IF spec_doc.toml.ok THEN 2 ELSE 1)
       /\ metadata = None
       /\ IF Len(ran) = (IF spec_doc.toml.ok THEN 2 ELSE 1)
          THEN /\ result # None
               /\ ~result[1].ok
               /\ result[1].err.kind = "ConfigParseError"
               /\ result[1].err.src = [name |-> FailingDoc.name, text |-> FailingDoc.text]
               /\ pc \in {"returned", "exit"}
          ELSE result = None

\* C14's case: neither document parses, and load has returned the parse error
\* of the specification, having parsed nothing else and checked nothing.
C14_Witness ==
  /\ ~spec_doc.toml.ok
  /\ ~config_doc.toml.ok
  /\ ran = <<"parse_spec">>
  /\ pc = "returned"
  /\ result[1].err.kind = "ConfigParseError"
  /\ result[1].err.src = [name |-> spec_doc.name, text |-> spec_doc.text]
  /\ result[1].err.src # [name |-> config_doc.name, text |-> config_doc.text]

(***************************************************************************)
(* service.rs and logloader.rs: a LogLoader and the calls of load_logs on  *)
(* it.  What the service answers to a query is the environment's choice.   *)
(***************************************************************************)
MaxCalls == 3

PageSizes == {1, 50}

Cursors == {"c1", "c2"}

AppId == "app"

\* A value as serde_json writes it.
JsonNull == [json |-> "null"]

JsonNumber(n) == [json |-> "number", number |-> n]

JsonString(s) == [json |-> "string", string |-> s]

\* A log entry of a response, by the JSON of its fields; the second has a
\* timestamp that is not a number.
LogEntries ==
  {[ts |-> ts, request_id |-> JsonString("r"), seq |-> JsonNumber(0),
    message |-> JsonString("m")] : ts \in {JsonNumber(1), JsonString("t")}}

GoodLog == CHOOSE l \in LogEntries : l.ts.json = "number"

BadLog == CHOOSE l \in LogEntries : l.ts.json = "string"

\* The logs object of a response: a page of entries and, when older entries
\* remain, the cursor of the next page.
LogLists ==
  {[data |-> d, cursor |-> c] :
     d \in {<<>>, <<GoodLog>>}, c \in {None} \cup {Some(x) : x \in Cursors}}
  \cup {[data |-> <<BadLog>>, cursor |-> None]}

\* graphql_client::Response<D>: data and errors, each of them optional.
Response(data, errors) == [data |-> data, errors |-> errors]

SomeError == Some(<<[message |-> "boom"]>>)

\* What Service::call returns for a GetAppLogs query: an error (the request
\* could not be made, the status was not a success, or the body was not the
\* JSON of a response), or the response.
AppAnswers ==
  {Err("api call failed")}
  \cup {Ok(Response(None, SomeError)),
        Ok(Response(Some([app |-> None]), SomeError))}
  \cup {Ok(Response(d, e)) :
          d \in {None, Some([app |-> None]),
                 Some([app |-> Some([current_deployment |-> None])])},
          e \in {None, Some(<<>>)}}
  \cup {Ok(Response(Some([app |-> Some([current_deployment |-> Some([logs |-> l])])]),
                    None)) : l \in LogLists}
  \cup {Ok(Response(Some([app |-> Some([current_deployment |->
                                           Some([logs |-> [data |-> <<>>,
                                                           cursor |-> None]])])]),
                    Some(<<>>)))}

\* What Service::call returns for a GetDeploymentLogs query.
DeploymentAnswers ==
  {Err("api call failed")}
  \cup {Ok(Response(None, SomeError)),
        Ok(Response(Some([deployment |-> None]), SomeError))}
  \cup {Ok(Response(d, e)) :
          d \in {None, Some([deployment |-> None])}, e \in {None, Some(<<>>)}}
  \cup {Ok(Response(Some([deployment |-> Some([logs |-> l])]), None)) : l \in LogLists}
  \cup {Ok(Response(Some([deployment |-> Some([logs |-> [data |-> <<>>,
                                                         cursor |-> None]])]),
                    Some(<<>>)))}

\* GqlResponseExt::check_service_error
check_service_error(self) ==
  LET errors == IF self.errors # None THEN self.errors[1] ELSE <<>>
  IN IF errors # <<>>
     THEN Err(<<"service returned error: ", errors[1].message>>)
     ELSE Ok(self)

\* serde_json::to_string of the logs object of a response.
serde_json_to_string(logs) ==
  Ok([data |-> logs.data,
      cursor |-> IF logs.cursor = None THEN JsonNull ELSE JsonString(logs.cursor[1])])

\* One entry read as a GenericLog: ts and seq are i64, the others String.
GenericLog(entry) ==
  IF /\ entry.ts.json = "number"
     /\ entry.request_id.json = "string"
     /\ entry.seq.json = "number"
     /\ entry.message.json = "string"
  THEN Ok([ts |-> entry.ts.number, request_id |-> entry.request_id.string,
           seq |-> entry.seq.number, message |-> entry.message.string])
  ELSE Err("invalid type")

\* serde_json::from_str::<GenericLogList>
serde_json_from_str(json) ==
  IF \E i \in 1..Len(json.data) : ~GenericLog(json.data[i]).ok
  THEN Err("invalid type")
  ELSE IF json.cursor.json \notin {"null", "string"}
  THEN Err("invalid type")
  ELSE Ok([data |-> [i \in 1..Len(json.data) |-> GenericLog(json.data[i]).value],
           cursor |-> IF json.cursor.json = "null" THEN None
                      ELSE Some(json.cursor.string)])

\* The conversion ending both queries:
\* Ok(serde_json::from_str(&serde_json::to_string(&data)?)?)
to_generic_log_list(data) ==
  LET text == serde_json_to_string(data)
  IN IF ~text.ok THEN text ELSE serde_json_from_str(text.value)

\* The query query_logs_for_app builds.
app_logs_query(app_id, first, before) ==
  [operation |-> "GetAppLogs",
   variables |-> [id |-> app_id, first |-> Some(first),
                  before |-> as_request_cursor_ref(before)]]

\* The query query_logs_for_deployment builds.
deployment_logs_query(deployment_id_, first, before) ==
  [operation |-> "GetDeploymentLogs",
   variables |-> [id |-> deployment_id_, first |-> Some(first),
                  before |-> as_request_cursor_ref(before)]]

\* query_logs_for_app from the point where Service::call has answered.
query_logs_for_app(answer) ==
  IF ~answer.ok THEN answer
  ELSE LET rsp == check_service_error(answer.value)
       IN IF ~rsp.ok THEN rsp
          ELSE LET data ==
                     IF rsp.value.data = None THEN None
                     ELSE IF rsp.value.data[1].app = None THEN None
                     ELSE IF rsp.value.data[1].app[1].current_deployment = None THEN None
                     ELSE Some(rsp.value.data[1].app[1].current_deployment[1].logs)
               IN IF data = None THEN Err("missing data")
                  ELSE to_generic_log_list(data[1])

\* query_logs_for_deployment from the point where Service::call has answered.
query_logs_for_deployment(answer) ==
  IF ~answer.ok THEN answer
  ELSE LET rsp == check_service_error(answer.value)
       IN IF ~rsp.ok THEN rsp
          ELSE LET data ==
                     IF rsp.value.data = None THEN None
                     ELSE IF rsp.value.data[1].deployment = None THEN None
                     ELSE Some(rsp.value.data[1].deployment[1].logs)
               IN IF data = None THEN Err("missing data")
                  ELSE to_generic_log_list(data[1])

\* No test of the cursor before querying.
at_end_never(self_cursor) == FALSE

\* matches!(self.cursor, ServiceCursor::End)
at_end(self_cursor) == self_cursor.tag = "End"

\* LogLoader::new
LogLoaderInit ==
  /\ cursor = ServiceCursor_Initial
  /\ deployment_id \in {None, Some("dep")}
  /\ exchanges = <<>>
  /\ returns = <<>>
  /\ NoLoad
  /\ app_config = None
  /\ before_normalize = <<>>

\* load_logs(page_size): at End nothing is asked; otherwise one query is
\* sent, and its error is returned with the cursor as it was, or the cursor
\* moves to the one the answer carries, or to End when it carries none.
LoadLogs ==
  /\ Len(returns) < MaxCalls
  /\ \E page_size \in PageSizes :
       IF at_end(cursor)
       THEN /\ returns' = Append(returns, Ok(<<>>))
            /\ UNCHANGED <<cursor, exchanges>>
       ELSE \E answer \in (IF deployment_id # None THEN DeploymentAnswers ELSE AppAnswers) :
              LET query == IF deployment_id # None
                           THEN deployment_logs_query(deployment_id[1], page_size, cursor)
                           ELSE app_logs_query(AppId, page_size, cursor)
                  log_list == IF deployment_id # None
                              THEN query_logs_for_deployment(answer)
                              ELSE query_logs_for_app(answer)
              IN /\ exchanges' = Append(exchanges,
                                        [call |-> Len(returns) + 1, query |-> query,
                                         answer |-> answer, log_list |-> log_list])
                 /\ IF ~log_list.ok
                    THEN /\ returns' = Append(returns, log_list)
                         /\ cursor' = cursor
                    ELSE /\ cursor' = IF log_list.value.cursor # None
                                      THEN ServiceCursor_Next(log_list.value.cursor[1])
                                      ELSE ServiceCursor_End
                         /\ returns' = Append(returns, Ok(log_list.value.data))
  /\ UNCHANGED <<deployment_id, load_vars, normalize_vars>>

LogLoaderNext == LoadLogs

LogLoaderSpec == LogLoaderInit /\ [][LogLoaderNext]_vars

(***************************************************************************)
(* The vocabulary of the log loader's properties, read off the history.    *)
(***************************************************************************)
\* The query of exchange e came back as a log list.
Succeeded(e) == exchanges[e].log_list.ok

\* The answer of exchange e named a next page, or none.
CursorOf(e) == exchanges[e].log_list.value.cursor

\* The exchange of the k-th call of load_logs, if the call made one.
ExchangesOf(k) == {e \in 1..Len(exchanges) : exchanges[e].call = k}

\* C15: once a query has succeeded with an answer that carries no cursor,
\* the loader's cursor is End, and every later call of load_logs, whatever
\* its page size and however many there are, returns Ok with an empty list
\* and sends nothing to the service.
C15_EndIsAbsorbing ==
  \A e \in 1..Len(exchanges) :
    (Succeeded(e) /\ CursorOf(e) = None) =>
      /\ cursor = ServiceCursor_End
      /\ \A k \in (exchanges[e].call + 1)..Len(returns) :
           /\ returns[k] = Ok(<<>>)
           /\ ExchangesOf(k) = {}

\* C15's case: the second call got a page of entries without a cursor, after
\* a first page with a cursor, and a third call has been made.
C15_Witness ==
  /\ Len(returns) = 3
  /\ Len(exchanges) = 2
  /\ Succeeded(1) /\ CursorOf(1) # None
  /\ Succeeded(2) /\ CursorOf(2) = None
  /\ returns[2] # Ok(<<>>)
  /\ returns[3] = Ok(<<>>)

\* The last exchange before exchange j whose query succeeded; 0 when none did.
LastSuccessBefore(j) ==
  IF \E s \in 1..(j - 1) : Succeeded(s)
  THEN CHOOSE s \in 1..(j - 1) : Succeeded(s) /\ \A t \in (s + 1)..(j - 1) : ~Succeeded(t)
  ELSE 0

\* The cursor the loader holds after the exchanges made so far.
CursorAfterExchanges ==
  LET s == LastSuccessBefore(Len(exchanges) + 1)
  IN IF s = 0 THEN ServiceCursor_Initial
     ELSE IF CursorOf(s) # None THEN ServiceCursor_Next(CursorOf(s)[1])
     ELSE ServiceCursor_End

\* C16: the `before` of every query sent is absent when no earlier query has
\* succeeded, and otherwise is exactly the cursor the most recent successful
\* answer carried; a call whose query fails (no answer from the service, an
\* answer with errors, an answer without the data, or data that is not a log
\* list) returns the error and leaves the cursor as it was, so the query of
\* the next call asks for the same page with the same `before`.
C16_BeforeFollowsCursor ==
  /\ cursor = CursorAfterExchanges
  /\ \A j \in 1..Len(exchanges) :
       LET s == LastSuccessBefore(j)
           before == exchanges[j].query.variables.before
       IN /\ s = 0 => before = None
          /\ s # 0 => (CursorOf(s) # None /\ before = CursorOf(s))
          /\ ~Succeeded(j) => returns[exchanges[j].call] = exchanges[j].log_list
          /\ (j > 1 /\ ~Succeeded(j - 1)) =>
               /\ before = exchanges[j - 1].query.variables.before
               /\ exchanges[j].query.variables.id = exchanges[j - 1].query.variables.id
               /\ exchanges[j].query.operation = exchanges[j - 1].query.operation

\* C16's case: the first query failed and the second asked for the same
\* page, got it with a cursor, and the third query, sent with that cursor as
\* `before`, failed, which left the cursor where it was.
C16_Witness ==
  /\ Len(exchanges) = 3
  /\ ~Succeeded(1)
  /\ exchanges[2].query.variables.before = None
  /\ Succeeded(2)
  /\ CursorOf(2) = Some("c2")
  /\ exchanges[3].query.variables.before = Some("c2")
  /\ ~Succeeded(3)
  /\ cursor = ServiceCursor_Next("c2")

====
